---- MODULE Spec2Model ----
(***************************************************************************)
(* SmartStudyPlannerPro: the task store (utils/storage.js) over the single *)
(* AsyncStorage key TASKS_STORAGE_KEY, and the callers that use it.        *)
(*                                                                         *)
(* A JavaScript value handed to or returned by the store is a record       *)
(*   [kind |-> "array" | "object" | "circular", items |-> <<task, ...>>]   *)
(* where "object" is a value that is not an array (it has no map, filter   *)
(* or iterator) and "circular" is a value JSON.stringify throws on.        *)
(* The value stored under the key is a record                              *)
(*   [kind |-> "missing" | "array" | "object" | "garbage", items |-> ...]  *)
(* "missing": getItem resolves to null; "array": the JSON text of an array *)
(* whose elements are lists of <<name, token>> members; "object": JSON     *)
(* text of a non-array; "garbage": text JSON.parse throws on.              *)
(***************************************************************************)
EXTENDS Integers, Sequences, FiniteSets, TLC

VARIABLES storage, nextId, op, arg, upd, got, calls, tick, clock, input, result

vars == <<storage, nextId, op, arg, upd, got, calls, tick, clock, input, result>>

(* ------------------------------ bounds --------------------------------- *)

\* how many ids generateId hands out in one run
MaxIds == 2

\* largest number that occurs in a number field
MaxNum == 3

\* how many calls are started in one run of overlapping calls
MaxCalls == 4

(* ------------------------------ tasks ---------------------------------- *)

\* the fields of a task, in the order handleSubmit writes them
Fields == <<"id", "subject", "topic", "studyTime", "deadline", "priority", "completed", "createdAt">>

\* the JSON type each field is written with
FieldType(f) ==
    CASE f = "studyTime" -> "number"
      [] f = "completed" -> "boolean"
      [] OTHER -> "string"

\* the n-th identifier generateId returns (timestamp + random: all distinct)
generateId(n) == "id" \o ToString(n)

(* --------------------------- the creation form ------------------------- *)

\* A text the user typed is a sequence of pieces: " " is a white space
\* character, every other piece a run of characters without white space.
\* A Date is a count of half days: an even count is a local midnight.
\* A JavaScript number is an integer up to MaxNum; Infinity, NaN and null,
\* for which TLC has no value of the same type, are the next three integers.

Infinity == MaxNum + 1

NaN == MaxNum + 2

Null == MaxNum + 3

\* new Date() while the form is open: noon of 2026-11-06
Now == 3

\* date.setHours(0, 0, 0, 0)
setHours0(date) == date - (date % 2)

\* date.toISOString()
toISOString(date) ==
    "2026-11-0" \o ToString(5 + date \div 2)
        \o (IF date % 2 = 0 THEN "T00:00:00.000Z" ELSE "T12:00:00.000Z")

RECURSIVE trimStart(_)
trimStart(text) ==
    IF text = <<>> THEN <<>>
    ELSE IF Head(text) = " " THEN trimStart(Tail(text)) ELSE text

RECURSIVE trimEnd(_)
trimEnd(text) ==
    IF text = <<>> THEN <<>>
    ELSE IF text[Len(text)] = " " THEN trimEnd(SubSeq(text, 1, Len(text) - 1)) ELSE text

\* text.trim()
trim(text) == trimEnd(trimStart(text))

\* the string a text is
RECURSIVE StringOf(_)
StringOf(text) == IF text = <<>> THEN "" ELSE Head(text) \o StringOf(Tail(text))

\* the pieces that are decimal literals, and the number each one denotes
IsDecimal(piece) == \E n \in (0 - 1)..MaxNum : ToString(n) = piece

DecimalOf(piece) == CHOOSE n \in (0 - 1)..MaxNum : ToString(n) = piece

\* Number(text), the conversion isNaN applies to its argument: white space
\* around the literal is ignored, the empty text is 0, anything after the
\* literal makes it NaN
ToNumber(text) ==
    LET t == trim(text)
    IN  IF t = <<>> THEN 0
        ELSE IF Len(t) > 1 THEN NaN
        ELSE IF t[1] = "Infinity" THEN Infinity
        ELSE IF IsDecimal(t[1]) THEN DecimalOf(t[1])
        ELSE NaN

isNaN(text) == ToNumber(text) = NaN

\* parseFloat(text): leading white space is skipped and the longest prefix
\* that is a literal is read; what follows it is ignored
parseFloat(text) ==
    LET t == trimStart(text)
    IN  IF t = <<>> THEN NaN
        ELSE IF t[1] = "Infinity" THEN Infinity
        ELSE IF IsDecimal(t[1]) THEN DecimalOf(t[1])
        ELSE NaN

\* x <= y on numbers: false when either is NaN
LessEq(x, y) == x # NaN /\ y # NaN /\ x <= y

\* the two forms of the scenario, as typed
FormA ==
    [subject |-> <<" ", "Math", " ">>, topic |-> <<"Algebra">>, studyTime |-> <<"2">>,
     deadline |-> 4, priority |-> "High"]

FormB ==
    [subject |-> <<"History">>, topic |-> <<"WWII">>, studyTime |-> <<"1">>,
     deadline |-> 4, priority |-> "Low"]

\* what the user typed into the form
FormPool == {FormA, FormB}

\* validateForm: the newErrors object, a function from the names of the
\* fields found invalid to their messages
validateForm(form) ==
    LET noSubject == trim(form.subject) = <<>>
        noTopic == trim(form.topic) = <<>>
        noStudyTime == trim(form.studyTime) = <<>>
        badStudyTime == /\ ~noStudyTime
                        /\ isNaN(form.studyTime) \/ LessEq(parseFloat(form.studyTime), 0)
        today == setHours0(Now)
        badDeadline == form.deadline < today
        names == {f \in {"subject", "topic", "studyTime", "deadline"} :
                    \/ f = "subject" /\ noSubject
                    \/ f = "topic" /\ noTopic
                    \/ f = "studyTime" /\ (noStudyTime \/ badStudyTime)
                    \/ f = "deadline" /\ badDeadline}
    IN  [f \in names |->
            CASE f = "subject" -> "Subject name is required"
              [] f = "topic" -> "Topic name is required"
              [] f = "studyTime" -> IF noStudyTime THEN "Study time is required"
                                    ELSE "Please enter a valid positive number"
              [] OTHER -> "Deadline must be today or a future date"]

\* Object.keys(newErrors).length === 0
Accepted(newErrors) == DOMAIN newErrors = {}

\* the task object handleSubmit builds
newTask(id, form) ==
    [ id |-> id,
      subject |-> StringOf(trim(form.subject)),
      topic |-> StringOf(trim(form.topic)),
      studyTime |-> parseFloat(form.studyTime),
      deadline |-> toISOString(form.deadline),
      priority |-> form.priority,
      completed |-> FALSE,
      createdAt |-> toISOString(Now) ]

\* the partialFields objects passed to updateTask: the two handleToggleComplete
\* passes, and one that names several other fields
UpdatePool ==
    { [completed |-> TRUE],
      [completed |-> FALSE],
      [subject |-> "Math", topic |-> "Algebra", studyTime |-> 2, priority |-> "High"] }

Array(items) == [kind |-> "array", items |-> items]

NotAnArray == [kind |-> "object", items |-> <<>>]

Circular == [kind |-> "circular", items |-> <<>>]

Missing == [kind |-> "missing", items |-> <<>>]

Garbage == [kind |-> "garbage", items |-> <<>>]

(* ---------------------------- sortByPriority -------------------------- *)

\* str.toLowerCase(), on the priority values of the model
toLowerCase(str) ==
    CASE str = "High" -> "high"
      [] str = "Medium" -> "medium"
      [] str = "Low" -> "low"
      [] str = "Urgent" -> "urgent"
      [] OTHER -> str

\* names priorityOrder, an object literal, inherits from Object.prototype
InheritedNames == {"constructor", "__proto__"}

\* priorityOrder[a.priority?.toLowerCase()] is an inherited function or
\* object: it is truthy, so `|| 4` keeps it, and a subtraction with it is NaN
InheritsRank(task) ==
    /\ "priority" \in DOMAIN task
    /\ toLowerCase(task.priority) \in InheritedNames

\* priorityOrder[a.priority?.toLowerCase()] || 4, when it is a number
priorityRank(task) ==
    IF "priority" \notin DOMAIN task THEN 4
    ELSE LET key == toLowerCase(task.priority)
         IN  CASE key = "high" -> 1
               [] key = "medium" -> 2
               [] key = "low" -> 3
               [] OTHER -> 4

\* the comparator, as sort reads its result: NaN counts as +0
compare(a, b) ==
    IF InheritsRank(a) \/ InheritsRank(b) THEN 0
    ELSE priorityRank(a) - priorityRank(b)

\* the comparator is consistent on the elements of tasks: it orders them as a
\* strict weak order does
Consistent(tasks) ==
    \A i, j, k \in 1..Len(tasks) :
        /\ (compare(tasks[i], tasks[j]) < 0) <=> (compare(tasks[j], tasks[i]) > 0)
        /\ (compare(tasks[i], tasks[j]) = 0 /\ compare(tasks[j], tasks[k]) = 0)
              => compare(tasks[i], tasks[k]) = 0
        /\ (compare(tasks[i], tasks[j]) < 0 /\ compare(tasks[j], tasks[k]) < 0)
              => compare(tasks[i], tasks[k]) < 0

\* t put into sorted behind every element that is not greater than it
InsertSorted(sorted, t) ==
    LET k == Cardinality({i \in 1..Len(sorted) : compare(sorted[i], t) <= 0})
    IN  SubSeq(sorted, 1, k) \o <<t>> \o SubSeq(sorted, k + 1, Len(sorted))

\* what Array.prototype.sort makes of a copy when the comparator is
\* consistent: the sort is stable
RECURSIVE StableSort(_)
StableSort(tasks) ==
    IF tasks = <<>> THEN <<>>
    ELSE InsertSorted(StableSort(SubSeq(tasks, 1, Len(tasks) - 1)), tasks[Len(tasks)])

RECURSIVE Orders(_)
Orders(tasks) ==
    IF tasks = <<>> THEN {<<>>}
    ELSE UNION { { SubSeq(p, 1, i) \o <<Head(tasks)>> \o SubSeq(p, i + 1, Len(p)) :
                     i \in 0..Len(p) } : p \in Orders(Tail(tasks)) }

\* sortByPriority(tasks): the arrays the call can return. With a comparator
\* that is not consistent the order Array.prototype.sort leaves is
\* implementation-defined: every order of the elements.
sortByPriority(tasks) ==
    IF Consistent(tasks) THEN {StableSort(tasks)} ELSE Orders(tasks)

\* the array handed to sortByPriority after the call: the copy was sorted
sortedInPlace(tasks, sorted) == tasks

(* -------------------------- calculateProgress -------------------------- *)

\* completedTasks / tasks.length and its product with 100 are IEEE 754
\* doubles. A positive double is [bits |-> b, exp |-> e]: b is a sequence of
\* Precision bits, the first one 1, and the number is b, read as a binary
\* integer, times 2^e.

Precision == 53

\* what is left of r after k binary places of r / n: the places are taken
\* half by half
RECURSIVE Remainder(_, _, _)
Remainder(r, n, k) ==
    IF k = 0 THEN r
    ELSE IF k = 1 THEN (2 * r) % n
    ELSE LET half == Remainder(r, n, k \div 2)
         IN  IF half = 0 THEN 0 ELSE Remainder(half, n, k - k \div 2)

\* the first k binary places of r / n, for r < n
RECURSIVE Places(_, _, _)
Places(r, n, k) ==
    IF k = 0 THEN <<>>
    ELSE IF k = 1 THEN <<(2 * r) \div n>>
    ELSE LET half == Remainder(r, n, k \div 2)
         IN  IF half = 0 THEN Places(r, n, k \div 2) \o [i \in 1..(k - k \div 2) |-> 0]
             ELSE Places(r, n, k \div 2) \o Places(half, n, k - k \div 2)

\* how many binary places of r / n are 0 before the first 1, for 0 < r < n
RECURSIVE LeadingZeros(_, _)
LeadingZeros(r, n) ==
    IF 2 * r >= n THEN 0 ELSE 1 + LeadingZeros(2 * r, n)

Zeros(k) == [i \in 1..k |-> 0]

\* the bits of a natural number
RECURSIVE BitsOf(_)
BitsOf(n) == IF n = 0 THEN <<>> ELSE BitsOf(n \div 2) \o <<n % 2>>

\* the number bits are
RECURSIVE ValueOf(_)
ValueOf(b) == IF b = <<>> THEN 0 ELSE 2 * ValueOf(SubSeq(b, 1, Len(b) - 1)) + b[Len(b)]

\* a + b + carry, for bit sequences of one length and a carry of 0 or 1: bit
\* i gets a carry when a bit after it makes one, or the carry that came in
\* does, and every bit between passes it on
AddBits(a, b, carry) ==
    LET n == Len(a)
        Carried(i) ==
            \/ \E j \in (i + 1)..n :
                  /\ a[j] + b[j] = 2
                  /\ \A m \in (i + 1)..(j - 1) : a[m] + b[m] = 1
            \/ /\ carry = 1
               /\ \A m \in (i + 1)..n : a[m] + b[m] >= 1
        sum == [i \in 1..n |-> (a[i] + b[i] + (IF Carried(i) THEN 1 ELSE 0)) % 2]
    IN  (IF Carried(0) THEN <<1>> ELSE <<>>) \o sum

\* b without the zeros it starts with
StripZeros(b) ==
    IF \A i \in 1..Len(b) : b[i] = 0 THEN <<>>
    ELSE LET first == CHOOSE i \in 1..Len(b) : b[i] = 1 /\ \A j \in 1..(i - 1) : b[j] = 0
         IN  SubSeq(b, first, Len(b))

\* b + 1; the result is one bit longer when every bit of b is 1
Increment(b) == AddBits(b, Zeros(Len(b)), 1)

\* the double nearest to b * 2^e (+ something below the last bit of b when
\* more is true), ties to even; b has more than Precision bits, the first 1
RoundToDouble(b, e, more) ==
    LET drop == Len(b) - Precision
        kept == SubSeq(b, 1, Precision)
        guard == b[Precision + 1]
        sticky == more \/ \E i \in (Precision + 2)..Len(b) : b[i] = 1
        up == guard = 1 /\ (sticky \/ kept[Precision] = 1)
        r == IF up THEN Increment(kept) ELSE kept
    IN  IF Len(r) > Precision
        THEN [bits |-> SubSeq(r, 1, Precision), exp |-> e + drop + 1]
        ELSE [bits |-> r, exp |-> e + drop]

\* c / n for 0 < c < n
Divide(c, n) ==
    LET z == LeadingZeros(c, n)
        k == z + Precision + 1
    IN  RoundToDouble(SubSeq(Places(c, n, k), z + 1, k), 0 - k, Remainder(c, n, k) # 0)

\* b * k, for a k of less than 8 bits: the bits of b that meet a bit of k at
\* one weight are counted, which gives a digit of 0 to 7 for each weight, and
\* the ones, the twos and the fours of these digits are added
TimesSmall(b, k) ==
    LET kb == BitsOf(k)
        n == Len(b)
        m == Len(kb)
        Digit(w) == Cardinality({u \in 0..(m - 1) :
                        /\ w - u \in 0..(n - 1)
                        /\ kb[m - u] = 1
                        /\ b[n - (w - u)] = 1})
        ones == [p \in 1..(n + m) |-> Digit(n + m - p) % 2]
        twos == [p \in 1..(n + m) |-> (Digit(n + m - p - 1) \div 2) % 2]
        fours == [p \in 1..(n + m) |-> Digit(n + m - p - 2) \div 4]
    IN  StripZeros(AddBits(AddBits(ones, twos, 0), fours, 0))

\* x * k for a double x and an integer k > 2; 0 * k is 0
Multiply(x, k) ==
    IF x.bits = <<>> THEN x ELSE RoundToDouble(TimesSmall(x.bits, k), x.exp, FALSE)

\* Math.round(x) for a double 0 < x < 2^Precision: the integer nearest to x,
\* the greater one when two are as near
MathRound(x) ==
    LET w == Precision + x.exp
    IN  IF w < 0 THEN 0
        ELSE ValueOf(SubSeq(x.bits, 1, w)) + (IF w < Precision THEN x.bits[w + 1] ELSE 0)

\* n / n, which is 1
One == [bits |-> [i \in 1..Precision |-> IF i = 1 THEN 1 ELSE 0], exp |-> 1 - Precision]

\* calculateProgress(tasks)
calculateProgress(tasks) ==
    IF Len(tasks) = 0 THEN 0
    ELSE LET completedTasks == Cardinality({i \in 1..Len(tasks) : tasks[i].completed})
         IN  IF completedTasks = 0 THEN 0
             ELSE MathRound(Multiply(IF completedTasks = Len(tasks) THEN One
                                     ELSE Divide(completedTasks, Len(tasks)), 100))

(* ----------------------------- study hours ----------------------------- *)

\* The sums of study hours are doubles as well. The double 0 has no bits; a
\* negative double is its magnitude with a sign field.

Zero == [bits |-> <<>>, exp |-> 0]

IsZero(x) == x.bits = <<>>

\* the double that b * 2^e is or is nearest to
ToDouble(b, e) ==
    LET s == StripZeros(b)
    IN  IF s = <<>> THEN Zero
        ELSE IF Len(s) <= Precision
        THEN [bits |-> s \o Zeros(Precision - Len(s)), exp |-> e - (Precision - Len(s))]
        ELSE RoundToDouble(s, e, FALSE)

\* the double nearest to c / n: what a decimal numeral of that value reads as
Ratio(c, n) ==
    LET whole == BitsOf(c \div n)
        k == Precision + 1
    IN  IF c = 0 THEN Zero
        ELSE IF whole = <<>> THEN Divide(c, n)
        ELSE RoundToDouble(whole \o Places(c % n, n, k), 0 - k, Remainder(c % n, n, k) # 0)

\* the bits of x with e as the exponent of the last one, n bits in all
Aligned(x, e, n) ==
    LET b == x.bits \o Zeros(x.exp - e)
    IN  Zeros(n - Len(b)) \o b

\* a - b - borrow, for bit sequences of one length, a not less than b: a
\* plus the complement of b, without the bit that sum carries out
SubBits(a, b, borrow) ==
    LET sum == AddBits(a, [i \in 1..Len(b) |-> 1 - b[i]], 1 - borrow)
    IN  SubSeq(sum, Len(sum) - Len(a) + 1, Len(sum))

Smaller(m, n) == IF m < n THEN m ELSE n

\* how many bits x and y have when both end at the lesser exponent
Width(x, y) ==
    LET e == Smaller(x.exp, y.exp)
    IN  Precision + (x.exp - e) + (y.exp - e)

\* x <= y, for doubles that are not negative
LessEqDouble(x, y) ==
    \/ IsZero(x)
    \/ /\ ~IsZero(y)
       /\ \/ x.exp < y.exp
          \/ /\ x.exp = y.exp
             /\ \/ x.bits = y.bits
                \/ \E i \in 1..Precision :
                      /\ x.bits[i] < y.bits[i]
                      /\ \A j \in 1..(i - 1) : x.bits[j] = y.bits[j]

\* x + y, for doubles that are not negative
Plus(x, y) ==
    IF IsZero(x) THEN y
    ELSE IF IsZero(y) THEN x
    ELSE LET e == Smaller(x.exp, y.exp)
             n == Width(x, y)
         IN  ToDouble(AddBits(Aligned(x, e, n), Aligned(y, e, n), 0), e)

\* x - y, for doubles with x >= y >= 0
Difference(x, y) ==
    IF IsZero(y) THEN x
    ELSE LET e == Smaller(x.exp, y.exp)
             n == Width(x, y)
         IN  ToDouble(SubBits(Aligned(x, e, n), Aligned(y, e, n), 0), e)

IsNegative(x) == "sign" \in DOMAIN x

Negated(x) == IF IsZero(x) THEN x ELSE [bits |-> x.bits, exp |-> x.exp, sign |-> 0 - 1]

\* x - y, for doubles that are not negative
Minus(x, y) ==
    IF LessEqDouble(y, x) THEN Difference(x, y) ELSE Negated(Difference(y, x))

\* t.studyTime || 0: studyTime counts tenths of an hour, as the decimal
\* numeral of the stored text has them; 0 is also what null and a missing
\* field come to
studyTimeOr0(t) == IF t.studyTime = 0 THEN Zero ELSE Ratio(t.studyTime, 10)

\* tasks.reduce((sum, t) => sum + (t.studyTime || 0), 0)
RECURSIVE reduceSum(_)
reduceSum(tasks) ==
    IF tasks = <<>> THEN Zero
    ELSE Plus(reduceSum(SubSeq(tasks, 1, Len(tasks) - 1)), studyTimeOr0(tasks[Len(tasks)]))

totalHours(tasks) == reduceSum(tasks)

completedHours(tasks) == reduceSum(SelectSeq(tasks, LAMBDA t : t.completed))

\* the number shown as Hours Remaining
hoursRemaining(tasks) == Minus(totalHours(tasks), completedHours(tasks))

(* ------------------------ getMotivationalMessage ----------------------- *)

\* the six values getMotivationalMessage returns, each emoji by its name
Perfect == [emoji |-> "trophy", message |-> "Perfect! You've completed all tasks!"]

AlmostThere == [emoji |-> "fire", message |-> "Almost there! Keep pushing!"]

GreatProgress == [emoji |-> "flexed biceps", message |-> "Great progress! Stay focused!"]

GoodStart == [emoji |-> "chart increasing", message |-> "Good start! Keep going!"]

Started == [emoji |-> "rocket", message |-> "You've started! Let's build momentum!"]

AddTasks == [emoji |-> "clipboard", message |-> "Add tasks to start tracking progress!"]

getMotivationalMessage_above75(progress) ==
    IF progress = 100 THEN Perfect
    ELSE IF progress > 75 THEN AlmostThere
    ELSE IF progress >= 50 THEN GreatProgress
    ELSE IF progress >= 25 THEN GoodStart
    ELSE IF progress > 0 THEN Started
    ELSE AddTasks

\* getMotivationalMessage(), of the screen's progress
getMotivationalMessage(progress) ==
    IF progress = 100 THEN Perfect
    ELSE IF progress >= 75 THEN AlmostThere
    ELSE IF progress >= 50 THEN GreatProgress
    ELSE IF progress >= 25 THEN GoodStart
    ELSE IF progress > 0 THEN Started
    ELSE AddTasks

(* ------------------------------ the clock ------------------------------ *)

\* clock is the wall clock, in hours since the local midnight of 2026-11-05.

\* new Date(), as a Date in half days
newDate == clock \div 12

\* new Date().getHours()
getHours == clock % 24

getGreeting_noonIsMorning ==
    LET hour == getHours
    IN  IF hour <= 12 THEN "Good Morning"
        ELSE IF hour < 17 THEN "Good Afternoon"
        ELSE "Good Evening"

\* getGreeting()
getGreeting ==
    LET hour == getHours
    IN  IF hour < 12 THEN "Good Morning"
        ELSE IF hour < 17 THEN "Good Afternoon"
        ELSE "Good Evening"

\* the half days a stored deadline can name
DueDates == 0..4

\* a Date whose time value is NaN
InvalidDate == 0 - 1

\* new Date(text)
DateOf(text) ==
    IF \E date \in DueDates : toISOString(date) = text
    THEN CHOOSE date \in DueDates : toISOString(date) = text
    ELSE InvalidDate

\* a.getTime() === b.getTime(), which is false when either is NaN
SameTime(a, b) == a # InvalidDate /\ b # InvalidDate /\ a = b

\* date after date.setHours(0, 0, 0, 0)
AtMidnight(date) == IF date = InvalidDate THEN InvalidDate ELSE setHours0(date)

getTodaysTasks_noSetHours(tasks) ==
    IF Len(tasks) = 0 THEN <<>>
    ELSE LET today == newDate
         IN  SelectSeq(tasks, LAMBDA task : SameTime(DateOf(task.deadline), today))

\* getTodaysTasks(tasks)
getTodaysTasks(tasks) ==
    IF Len(tasks) = 0 THEN <<>>
    ELSE LET today == AtMidnight(newDate)
         IN  SelectSeq(tasks, LAMBDA task : SameTime(AtMidnight(DateOf(task.deadline)), today))

(* --------------------------- getFilteredTasks -------------------------- *)

\* the values the screen's setFilter is called with
Filters == {"all", "pending", "completed"}

getFilteredTasks_pendingUnfiltered(tasks, filter) ==
    CASE filter = "pending" -> tasks
      [] filter = "completed" -> SelectSeq(tasks, LAMBDA t : t.completed)
      [] OTHER -> tasks

\* getFilteredTasks(), of the screen's tasks and filter
getFilteredTasks(tasks, filter) ==
    CASE filter = "pending" -> SelectSeq(tasks, LAMBDA t : ~t.completed)
      [] filter = "completed" -> SelectSeq(tasks, LAMBDA t : t.completed)
      [] OTHER -> tasks

\* the counts of the filter badges
pendingCount(tasks) == Len(SelectSeq(tasks, LAMBDA t : ~t.completed))

completedCount(tasks) == Len(SelectSeq(tasks, LAMBDA t : t.completed))

(* ------------------------------- JSON ---------------------------------- *)

\* JSON.stringify of one field value
EncodeValue(f, v) ==
    CASE FieldType(f) = "number" ->
            IF v \in {Infinity, NaN, Null}
            THEN [kind |-> "null", text |-> "null"]
            ELSE [kind |-> "number", text |-> ToString(v)]
      [] FieldType(f) = "boolean" -> [kind |-> "boolean", text |-> IF v THEN "true" ELSE "false"]
      [] OTHER -> [kind |-> "string", text |-> v]

\* JSON.parse of one token
DecodeValue(tok) ==
    CASE tok.kind = "number" -> CHOOSE n \in 0..MaxNum : ToString(n) = tok.text
      [] tok.kind = "null" -> Null
      [] tok.kind = "boolean" -> (tok.text = "true")
      [] OTHER -> tok.text

\* JSON.stringify of one task: its own fields, in insertion order
EncodeTask(t) ==
    LET present == SelectSeq(Fields, LAMBDA f : f \in DOMAIN t)
    IN  [i \in 1..Len(present) |-> <<present[i], EncodeValue(present[i], t[present[i]])>>]

\* JSON.parse of one object (JSON.stringify writes every name once)
DecodeTask(members) ==
    LET names == {members[i][1] : i \in 1..Len(members)}
        at(f) == CHOOSE i \in 1..Len(members) : members[i][1] = f
    IN  [f \in names |-> DecodeValue(members[at(f)][2])]

JSONstringify(v) ==
    CASE v.kind = "circular" -> [ok |-> FALSE, text |-> Missing]
      [] v.kind = "object" -> [ok |-> TRUE, text |-> [kind |-> "object", items |-> <<>>]]
      [] OTHER -> [ok |-> TRUE,
                   text |-> [kind |-> "array",
                             items |-> [i \in 1..Len(v.items) |-> EncodeTask(v.items[i])]]]

JSONparse(text) ==
    CASE text.kind = "garbage" -> [ok |-> FALSE, value |-> Array(<<>>)]
      [] text.kind = "object" -> [ok |-> TRUE, value |-> NotAnArray]
      [] OTHER -> [ok |-> TRUE,
                   value |-> Array([i \in 1..Len(text.items) |-> DecodeTask(text.items[i])])]

(* ------------------------------ the store ------------------------------ *)

\* saveTasks with `return true` in its catch block
saveTasks_catchReturnsTrue(st, tasks, writeOk) ==
    LET jsonValue == JSONstringify(tasks)
    IN  IF jsonValue.ok /\ writeOk
        THEN [ret |-> TRUE, st |-> jsonValue.text]
        ELSE [ret |-> TRUE, st |-> st]

saveTasks_noReturnTrue(st, tasks, writeOk) ==
    LET jsonValue == JSONstringify(tasks)
    IN  IF jsonValue.ok /\ writeOk
        THEN [ret |-> FALSE, st |-> jsonValue.text]
        ELSE [ret |-> FALSE, st |-> st]

\* saveTasks(tasks) on stored value st; writeOk: setItem resolves
saveTasks(st, tasks, writeOk) ==
    LET jsonValue == JSONstringify(tasks)
    IN  IF jsonValue.ok /\ writeOk
        THEN [ret |-> TRUE, st |-> jsonValue.text]
        ELSE [ret |-> FALSE, st |-> st]

\* getTasks without the `jsonValue != null` test: JSON.parse(null) is null
getTasks_noNullTest(st, readOk) ==
    IF ~readOk THEN Array(<<>>)
    ELSE IF st.kind = "missing" THEN NotAnArray
    ELSE LET parsed == JSONparse(st)
         IN  IF parsed.ok THEN parsed.value ELSE Array(<<>>)

\* getTasks() on stored value st; readOk: getItem resolves
getTasks(st, readOk) ==
    IF ~readOk THEN Array(<<>>)
    ELSE IF st.kind = "missing" THEN Array(<<>>)
    ELSE LET parsed == JSONparse(st)
         IN  IF parsed.ok THEN parsed.value ELSE Array(<<>>)

\* the collection the key holds: what a getTasks whose read succeeds returns
Persisted(st) == getTasks(st, TRUE)

PersistedIds(st) ==
    IF Persisted(st).kind = "array"
    THEN {Persisted(st).items[i].id : i \in 1..Len(Persisted(st).items)}
    ELSE {}

\* { ...task, ...updates }
Spread(task, updates) ==
    [f \in DOMAIN task \cup DOMAIN updates |->
        IF f \in DOMAIN updates THEN updates[f] ELSE task[f]]

\* updateTask that maps over the collection as stored at the time of the
\* write instead of the one it read
updateTaskWrite_readsAgain(st, tasks, taskId, updates, writeOk) ==
    LET current == Persisted(st)
    IN  IF tasks.kind # "array" \/ current.kind # "array"
        THEN [ret |-> FALSE, st |-> st]
        ELSE LET updatedTasks ==
                     [i \in 1..Len(current.items) |->
                         IF current.items[i].id = taskId
                         THEN Spread(current.items[i], updates)
                         ELSE current.items[i]]
             IN  saveTasks(st, Array(updatedTasks), writeOk)

\* updateTask after `await getTasks()` returned tasks: st is the stored value
\* at the time of the write
updateTaskWrite(st, tasks, taskId, updates, writeOk) ==
    IF tasks.kind # "array"
    THEN [ret |-> FALSE, st |-> st]
    ELSE LET updatedTasks ==
                 [i \in 1..Len(tasks.items) |->
                     IF tasks.items[i].id = taskId
                     THEN Spread(tasks.items[i], updates)
                     ELSE tasks.items[i]]
         IN  saveTasks(st, Array(updatedTasks), writeOk)

\* updateTask(taskId, updates), run without another call in between
updateTask(st, taskId, updates, readOk, writeOk) ==
    updateTaskWrite(st, getTasks(st, readOk), taskId, updates, writeOk)

\* addTask that saves the collection sorted by priority
addTaskWrite_savesSorted(st, tasks, task, writeOk) ==
    IF tasks.kind # "array"
    THEN [ret |-> FALSE, st |-> st]
    ELSE saveTasks(st, Array(StableSort(Append(tasks.items, task))), writeOk)

\* addTask after `await getTasks()` returned tasks
addTaskWrite(st, tasks, task, writeOk) ==
    IF tasks.kind # "array"
    THEN [ret |-> FALSE, st |-> st]
    ELSE saveTasks(st, Array(Append(tasks.items, task)), writeOk)

\* addTask(newTask), run without another call in between
addTask(st, task, readOk, writeOk) ==
    addTaskWrite(st, getTasks(st, readOk), task, writeOk)

\* deleteTask after `await getTasks()` returned tasks
deleteTaskWrite(st, tasks, taskId, writeOk) ==
    IF tasks.kind # "array"
    THEN [ret |-> FALSE, st |-> st]
    ELSE saveTasks(st, Array(SelectSeq(tasks.items, LAMBDA t : t.id # taskId)), writeOk)

\* deleteTask(taskId), run without another call in between
deleteTask(st, taskId, readOk, writeOk) ==
    deleteTaskWrite(st, getTasks(st, readOk), taskId, writeOk)

\* clearAllTasks with `return true` in its catch block
clearAllTasks_catchReturnsTrue(st, removeOk) ==
    IF removeOk THEN [ret |-> TRUE, st |-> Missing] ELSE [ret |-> TRUE, st |-> st]

\* clearAllTasks(); removeOk: removeItem resolves
clearAllTasks(st, removeOk) ==
    IF removeOk THEN [ret |-> TRUE, st |-> Missing] ELSE [ret |-> FALSE, st |-> st]

(* ------------------------- calls, one at a time ------------------------ *)

NoCall ==
    [name |-> "none", taskId |-> "", ret |-> FALSE, readOk |-> TRUE, writeOk |-> TRUE,
     afterClear |-> FALSE]

\* two calls of the store can be in flight at once
Slots == {1, 2}

\* a slot with no call: pc is "idle", "pending" (getTasks has returned, the
\* write is still to come) or "done"
Idle ==
    [pc |-> "idle", name |-> "none", taskId |-> "", updates |-> <<>>,
     task |-> Array(<<>>), tasks |-> Array(<<>>), readOk |-> TRUE, ret |-> FALSE,
     overlapped |-> FALSE]

NoCalls == [s \in Slots |-> Idle]

Ids == {generateId(n) : n \in 1..MaxIds}

IdNum(id) == CHOOSE n \in 1..MaxIds : generateId(n) = id

\* the values a caller hands to saveTasks: task sequences with distinct ids
\* (the empty one included), a value that is not an array, and a value
\* JSON.stringify throws on
SaveInputs ==
    LET tA == newTask(generateId(1), FormA)
        tB == newTask(generateId(2), FormB)
    IN  {Array(<<>>), Array(<<tA>>), Array(<<tA, tB>>), Array(<<tB, tA>>),
         NotAnArray, Circular}

\* the largest id number among the tasks of s (0 when there is none)
MaxIdNum(s) ==
    IF Len(s) = 0 THEN 0
    ELSE CHOOSE n \in 1..MaxIds :
            /\ \E i \in 1..Len(s) : IdNum(s[i].id) = n
            /\ \A i \in 1..Len(s) : IdNum(s[i].id) <= n

\* the call before this one was a clearAllTasks that returned true
AfterClear == op.name = "clearAllTasks" /\ op.ret

\* no pure function has been applied: its argument and its result
NoInput == <<>>

NoResult == [done |-> FALSE, value |-> <<>>]

\* no getTasks call since the last write call
NotRead == [called |-> FALSE, readOk |-> TRUE, value |-> Array(<<>>), sorted |-> <<>>]

Init ==
    /\ storage = Missing
    /\ nextId = 1
    /\ op = NoCall
    /\ arg = Array(<<>>)
    /\ upd = <<>>
    /\ got = NotRead
    /\ calls = NoCalls
    /\ tick = 0
    /\ clock = 0
    /\ input = NoInput
    /\ result = NoResult

\* a caller awaits getTasks(); got keeps what it returned
CallGetTasks ==
    \E readOk \in BOOLEAN :
        /\ got' = [called |-> TRUE, readOk |-> readOk, value |-> getTasks(storage, readOk),
                   sorted |-> <<>>]
        /\ UNCHANGED <<storage, nextId, op, arg, upd, calls, tick, clock, input, result>>

\* a caller awaits saveTasks(tasks)
CallSaveTasks ==
    \E tasks \in SaveInputs, writeOk \in BOOLEAN :
        LET r == saveTasks(storage, tasks, writeOk)
        IN  /\ storage' = r.st
            /\ op' = [name |-> "saveTasks", taskId |-> "", ret |-> r.ret,
                      readOk |-> TRUE, writeOk |-> writeOk,
                      afterClear |-> AfterClear]
            /\ arg' = tasks
            /\ upd' = <<>>
            /\ got' = NotRead
            /\ nextId' = IF nextId > MaxIdNum(tasks.items) THEN nextId
                         ELSE MaxIdNum(tasks.items) + 1
            /\ UNCHANGED <<calls, tick, clock, input, result>>

\* handleSubmit on the form as typed: it returns when validateForm finds an
\* error, else it builds the task under a fresh id and awaits addTask(newTask)
handleSubmit(form, readOk, writeOk) ==
    IF ~Accepted(validateForm(form))
    THEN /\ op' = NoCall
         /\ arg' = Array(<<>>)
         /\ UNCHANGED <<storage, nextId>>
    ELSE /\ LET task == newTask(generateId(nextId), form)
                r == addTask(storage, task, readOk, writeOk)
            IN  /\ storage' = r.st
                /\ op' = [name |-> "addTask", taskId |-> task.id, ret |-> r.ret,
                          readOk |-> readOk, writeOk |-> writeOk,
                          afterClear |-> AfterClear]
                /\ arg' = Array(<<task>>)
         /\ nextId' = nextId + 1

\* the user submits a form that passes validateForm
CallAddTask ==
    \E form \in FormPool, readOk \in BOOLEAN, writeOk \in BOOLEAN :
        /\ nextId <= MaxIds
        /\ handleSubmit(form, readOk, writeOk)
        /\ upd' = <<>>
        /\ got' = NotRead
        /\ UNCHANGED <<calls, tick, clock, input, result>>

\* a caller awaits updateTask(taskId, updates), updates taken from pool
UpdateTaskFrom(pool) ==
    \E taskId \in Ids, updates \in pool, readOk \in BOOLEAN, writeOk \in BOOLEAN :
        LET r == updateTask(storage, taskId, updates, readOk, writeOk)
        IN  /\ storage' = r.st
            /\ op' = [name |-> "updateTask", taskId |-> taskId, ret |-> r.ret,
                      readOk |-> readOk, writeOk |-> writeOk,
                      afterClear |-> AfterClear]
            /\ upd' = updates
            /\ arg' = Array(<<>>)
            /\ got' = NotRead
            /\ UNCHANGED <<nextId, calls, tick, clock, input, result>>

\* handleToggleComplete's updates, and one that rewrites the form's fields
CallUpdateTask == UpdateTaskFrom(UpdatePool)

\* a caller awaits deleteTask(taskId)
CallDeleteTask ==
    \E taskId \in Ids, readOk \in BOOLEAN, writeOk \in BOOLEAN :
        LET r == deleteTask(storage, taskId, readOk, writeOk)
        IN  /\ storage' = r.st
            /\ op' = [name |-> "deleteTask", taskId |-> taskId, ret |-> r.ret,
                      readOk |-> readOk, writeOk |-> writeOk,
                      afterClear |-> AfterClear]
            /\ arg' = Array(<<>>)
            /\ upd' = <<>>
            /\ got' = NotRead
            /\ UNCHANGED <<nextId, calls, tick, clock, input, result>>

\* a caller awaits clearAllTasks()
CallClearAllTasks ==
    \E removeOk \in BOOLEAN :
        LET r == clearAllTasks(storage, removeOk)
        IN  /\ storage' = r.st
            /\ op' = [name |-> "clearAllTasks", taskId |-> "", ret |-> r.ret,
                      readOk |-> TRUE, writeOk |-> removeOk,
                      afterClear |-> AfterClear]
            /\ arg' = Array(<<>>)
            /\ upd' = <<>>
            /\ got' = NotRead
            /\ UNCHANGED <<nextId, calls, tick, clock, input, result>>

Next ==
    \/ CallGetTasks
    \/ CallSaveTasks
    \/ CallAddTask
    \/ CallUpdateTask
    \/ CallDeleteTask
    \/ CallClearAllTasks

Spec == Init /\ [][Next]_vars

\* something outside the store leaves text under the key that is no JSON
ExternalWrite ==
    /\ storage' = Garbage
    /\ op' = [name |-> "external", taskId |-> "", ret |-> TRUE,
              readOk |-> TRUE, writeOk |-> TRUE, afterClear |-> FALSE]
    /\ arg' = Array(<<>>)
    /\ upd' = <<>>
    /\ got' = NotRead
    /\ UNCHANGED <<nextId, calls, tick, clock, input, result>>

NextEnv ==
    \/ Next
    \/ ExternalWrite

SpecEnv == Init /\ [][NextEnv]_vars

(* ------------------------------ the task list ------------------------- *)

\* TaskListScreen's loadTasks: getTasks, then sortByPriority of what it
\* returned; got.sorted is the array handed to setTasks. [...tasks] throws on
\* a value that is no array, and loadTasks catches it: nothing is set.
LoadTasks ==
    \E readOk \in BOOLEAN :
        LET storedTasks == getTasks(storage, readOk)
        IN  /\ \E sortedTasks \in (IF storedTasks.kind = "array"
                                   THEN sortByPriority(storedTasks.items)
                                   ELSE {<<>>}) :
                  got' = [called |-> TRUE, readOk |-> readOk, value |-> storedTasks,
                          sorted |-> sortedTasks]
            /\ UNCHANGED <<storage, nextId, op, arg, upd, calls, tick, clock, input, result>>

NextList ==
    \/ LoadTasks
    \/ CallAddTask
    \/ CallUpdateTask
    \/ CallDeleteTask
    \/ CallClearAllTasks

SpecList == Init /\ [][NextList]_vars

(* -------------------------- sortByPriority alone ----------------------- *)

\* the longest array handed to sortByPriority
MaxSort == 3

\* priority values: the three of the form, one that is not among them, and one
\* that names a property every object has
PriorityValues == {"High", "Medium", "Low", "Urgent", "constructor"}

\* the arrays handed to sortByPriority: the i-th task has id i and a priority
\* of PriorityValues, or no priority field
SortInputs ==
    UNION { { [i \in 1..n |->
                 IF c[i] = "" THEN [id |-> ToString(i)]
                 ELSE [id |-> ToString(i), priority |-> c[i]]] :
              c \in [1..n -> PriorityValues \cup {""}] } : n \in 0..MaxSort }

InitSort ==
    /\ storage = Missing
    /\ nextId = 1
    /\ op = NoCall
    /\ arg = Array(<<>>)
    /\ upd = <<>>
    /\ got = NotRead
    /\ calls = NoCalls
    /\ tick = 0
    /\ clock = 0
    /\ input \in SortInputs
    /\ result = NoResult

\* sortByPriority(input): result is the array returned, input the array
\* handed in as it is after the call
SortByPriority ==
    /\ ~result.done
    /\ \E sorted \in sortByPriority(input) :
          /\ result' = [done |-> TRUE, value |-> sorted]
          /\ input' = sortedInPlace(input, sorted)
    /\ UNCHANGED <<storage, nextId, op, arg, upd, got, calls, tick, clock>>

NextSort == SortByPriority

SpecSort == InitSort /\ [][NextSort]_vars

(* --------------------------- pure functions ---------------------------- *)

\* the store and the calls while a pure function is applied
StoreAtRest ==
    /\ storage = Missing
    /\ nextId = 1
    /\ op = NoCall
    /\ arg = Array(<<>>)
    /\ upd = <<>>
    /\ got = NotRead
    /\ calls = NoCalls
    /\ tick = 0
    /\ clock = 0

(* -------------------------- getFilteredTasks alone --------------------- *)

\* the longest list the screen shows
MaxShown == 4

\* the screen's state: tasks, the i-th with id i, and filter
FilterInputs ==
    UNION { { [tasks |-> [i \in 1..n |-> [id |-> ToString(i), completed |-> c[i]]],
               filter |-> f] :
              c \in [1..n -> BOOLEAN], f \in Filters } : n \in 0..MaxShown }

InitFilter ==
    /\ StoreAtRest
    /\ input \in FilterInputs
    /\ result = NoResult

\* one render of the screen: filteredTasks and the two counts
GetFilteredTasks ==
    /\ ~result.done
    /\ result' = [done |-> TRUE,
                  value |-> [filteredTasks |-> getFilteredTasks(input.tasks, input.filter),
                             pendingCount |-> pendingCount(input.tasks),
                             completedCount |-> completedCount(input.tasks)]]
    /\ UNCHANGED <<storage, nextId, op, arg, upd, got, calls, tick, clock, input>>

NextFilter == GetFilteredTasks

SpecFilter == InitFilter /\ [][NextFilter]_vars

(* ----------------------------- study hours alone ---------------------- *)

\* the longest array whose hours are summed
MaxSummed == 3

\* study times in tenths of an hour: none, 0.1, 0.3, 0.5, 1 and 2 hours
StudyTimes == {0, 1, 3, 5, 10, 20}

\* the screen's tasks
HoursInputs ==
    UNION { { [i \in 1..n |-> [id |-> ToString(i), studyTime |-> h[i], completed |-> c[i]]] :
              h \in [1..n -> StudyTimes], c \in [1..n -> BOOLEAN] } : n \in 0..MaxSummed }

InitHours ==
    /\ StoreAtRest
    /\ input \in HoursInputs
    /\ result = NoResult

\* one render of the progress screen: the three numbers of hours
RenderHours ==
    /\ ~result.done
    /\ result' = [done |-> TRUE,
                  value |-> [total |-> totalHours(input),
                             completed |-> completedHours(input),
                             remaining |-> hoursRemaining(input)]]
    /\ UNCHANGED <<storage, nextId, op, arg, upd, got, calls, tick, clock, input>>

NextHours == RenderHours

SpecHours == InitHours /\ [][NextHours]_vars

(* ----------------------- getMotivationalMessage alone ------------------ *)

\* the values calculateProgress can set progress to
Percents == 0..100

InitMessage ==
    /\ StoreAtRest
    /\ input \in Percents
    /\ result = NoResult

\* one render of the progress screen: motivation
GetMotivationalMessage ==
    /\ ~result.done
    /\ result' = [done |-> TRUE, value |-> getMotivationalMessage(input)]
    /\ UNCHANGED <<storage, nextId, op, arg, upd, got, calls, tick, clock, input>>

NextMessage == GetMotivationalMessage

SpecMessage == InitMessage /\ [][NextMessage]_vars

(* --------------------- getGreeting and getTodaysTasks ------------------ *)

\* the last hour of the clock: 23:00 of 2026-11-06
MaxClock == 47

\* the longest array handed to getTodaysTasks
MaxDue == 2

\* the deadline texts: toISOString of a Date, and one that is no date
DeadlineTexts == {toISOString(date) : date \in DueDates} \cup {""}

\* the arrays handed to getTodaysTasks: the i-th task has id i
DueInputs ==
    UNION { { [i \in 1..n |-> [id |-> ToString(i), deadline |-> d[i]]] :
              d \in [1..n -> DeadlineTexts] } : n \in 0..MaxDue }

\* what each of the two functions returned last: nothing yet, or one value
NoReturns == [getGreeting |-> <<>>, getTodaysTasks |-> <<>>]

InitClock ==
    /\ StoreAtRest
    /\ input \in DueInputs
    /\ result = [done |-> FALSE, value |-> NoReturns]

\* an hour passes
Tick ==
    /\ clock < MaxClock
    /\ clock' = clock + 1
    /\ UNCHANGED <<storage, nextId, op, arg, upd, got, calls, tick, input, result>>

\* getGreeting()
GetGreeting ==
    /\ result' = [done |-> TRUE,
                  value |-> [result.value EXCEPT !.getGreeting = <<getGreeting>>]]
    /\ UNCHANGED <<storage, nextId, op, arg, upd, got, calls, tick, clock, input>>

\* getTodaysTasks(input)
GetTodaysTasks ==
    /\ result' = [done |-> TRUE,
                  value |-> [result.value EXCEPT !.getTodaysTasks = <<getTodaysTasks(input)>>]]
    /\ UNCHANGED <<storage, nextId, op, arg, upd, got, calls, tick, clock, input>>

NextClock ==
    \/ Tick
    \/ GetGreeting
    \/ GetTodaysTasks

SpecClock == InitClock /\ [][NextClock]_vars

(* ------------------------- calculateProgress alone --------------------- *)

\* the longest array handed to calculateProgress
MaxTasks == 40

\* the arrays handed to calculateProgress: n tasks of which the first c are
\* completed
ProgressInputs ==
    UNION { { [i \in 1..n |-> [id |-> ToString(i), completed |-> (i <= c)]] :
                c \in 0..n } : n \in 0..MaxTasks }

InitProgress ==
    /\ storage = Missing
    /\ nextId = 1
    /\ op = NoCall
    /\ arg = Array(<<>>)
    /\ upd = <<>>
    /\ got = NotRead
    /\ calls = NoCalls
    /\ tick = 0
    /\ clock = 0
    /\ input \in ProgressInputs
    /\ result = NoResult

\* calculateProgress(input)
CalculateProgress ==
    /\ ~result.done
    /\ result' = [done |-> TRUE, value |-> calculateProgress(input)]
    /\ UNCHANGED <<storage, nextId, op, arg, upd, got, calls, tick, clock, input>>

NextProgress == CalculateProgress

SpecProgress == InitProgress /\ [][NextProgress]_vars

(* --------------------- two tasks, the first completed ------------------ *)

\* a stored task with its studyTime in tenths of an hour; null counts as 0
InTenths(task) ==
    [id |-> task.id, completed |-> task.completed,
     studyTime |-> IF task.studyTime \in 1..MaxNum THEN 10 * task.studyTime ELSE 0]

\* loadData and loadTasks on one array read from the store: progress, the
\* three numbers of hours and the sorted list
Snapshot(storedTasks, sortedTasks) ==
    LET hours == [i \in 1..Len(storedTasks) |-> InTenths(storedTasks[i])]
    IN  [progress |-> calculateProgress(storedTasks),
         total |-> totalHours(hours),
         completed |-> completedHours(hours),
         remaining |-> hoursRemaining(hours),
         sorted |-> sortedTasks]

\* input is the list of the values the calls made so far returned
InitScenario ==
    /\ Init
    /\ input = <<>>

\* the user submits the form for Math, Algebra, 2 hours, High
SubmitMath ==
    \E readOk \in BOOLEAN, writeOk \in BOOLEAN :
        /\ input = <<>>
        /\ handleSubmit(FormA, readOk, writeOk)
        /\ input' = Append(input, op'.ret)
        /\ upd' = <<>>
        /\ got' = NotRead
        /\ UNCHANGED <<calls, tick, clock, result>>

\* then the form for History, WWII, 1 hour, Low
SubmitHistory ==
    \E readOk \in BOOLEAN, writeOk \in BOOLEAN :
        /\ Len(input) = 1
        /\ handleSubmit(FormB, readOk, writeOk)
        /\ input' = Append(input, op'.ret)
        /\ upd' = <<>>
        /\ got' = NotRead
        /\ UNCHANGED <<calls, tick, clock, result>>

\* then marks the first task complete
CompleteFirst ==
    \E readOk \in BOOLEAN, writeOk \in BOOLEAN :
        LET updates == [completed |-> TRUE]
            r == updateTask(storage, generateId(1), updates, readOk, writeOk)
        IN  /\ Len(input) = 2
            /\ storage' = r.st
            /\ op' = [name |-> "updateTask", taskId |-> generateId(1), ret |-> r.ret,
                      readOk |-> readOk, writeOk |-> writeOk,
                      afterClear |-> AfterClear]
            /\ upd' = updates
            /\ arg' = Array(<<>>)
            /\ got' = NotRead
            /\ input' = Append(input, r.ret)
            /\ UNCHANGED <<nextId, calls, tick, clock, result>>

\* the screens load, which they do whenever they come into focus
TakeSnapshot ==
    \E readOk \in BOOLEAN :
        LET storedTasks == getTasks(storage, readOk)
        IN  /\ \E sortedTasks \in sortByPriority(storedTasks.items) :
                  /\ got' = [called |-> TRUE, readOk |-> readOk, value |-> storedTasks,
                             sorted |-> sortedTasks]
                  /\ result' = [done |-> TRUE,
                                value |-> Snapshot(storedTasks.items, sortedTasks)]
            /\ UNCHANGED <<storage, nextId, op, arg, upd, calls, tick, clock, input>>

NextScenario ==
    \/ SubmitMath
    \/ SubmitHistory
    \/ CompleteFirst
    \/ TakeSnapshot

SpecScenario == InitScenario /\ [][NextScenario]_vars

(* ------------------------- the completion toggle ----------------------- *)

\* the most presses of a completion toggle
MaxPresses == 2

\* the task list screen: tasks is its state as last rendered, reloading the
\* number of handleToggleComplete calls that await loadTasks()
NoScreen == [tasks |-> <<>>, reloading |-> 0]

\* for every id, how often its toggle was pressed and whether an updateTask
\* of one of these presses returned false
NoPresses == [id \in Ids |-> [presses |-> 0, failed |-> FALSE]]

Pressed == LET count[n \in 0..MaxIds] ==
                   IF n = 0 THEN 0 ELSE count[n - 1] + result.value[generateId(n)].presses
           IN  count[MaxIds]

InitToggle ==
    /\ StoreAtRest
    /\ input = NoScreen
    /\ result = [done |-> FALSE, value |-> NoPresses]

\* tasks.find(t => t.id === taskId), for an id that is in tasks
find(tasks, taskId) == tasks[CHOOSE i \in 1..Len(tasks) :
                                /\ tasks[i].id = taskId
                                /\ \A j \in 1..(i - 1) : tasks[j].id # taskId]

\* loadTasks(): the screen's tasks after it
loadTasks(tasks, storedTasks, sortedTasks) ==
    IF storedTasks.kind = "array" THEN sortedTasks ELSE tasks

\* the user presses the toggle of a card: handleToggleComplete(id) up to
\* `await loadTasks()`
Press ==
    \E i \in 1..Len(input.tasks), readOk \in BOOLEAN, writeOk \in BOOLEAN :
        LET taskId == input.tasks[i].id
            task == find(input.tasks, taskId)
            updates == [completed |-> ~task.completed]
            r == updateTask(storage, taskId, updates, readOk, writeOk)
        IN  /\ Pressed < MaxPresses
            /\ storage' = r.st
            /\ op' = [name |-> "updateTask", taskId |-> taskId, ret |-> r.ret,
                      readOk |-> readOk, writeOk |-> writeOk,
                      afterClear |-> AfterClear]
            /\ upd' = updates
            /\ arg' = Array(<<>>)
            /\ got' = NotRead
            /\ input' = [input EXCEPT !.reloading = IF r.ret THEN @ + 1 ELSE @]
            /\ result' = [done |-> TRUE,
                          value |-> [result.value EXCEPT
                                       ![taskId] = [presses |-> @.presses + 1,
                                                    failed |-> @.failed \/ ~r.ret]]]
            /\ UNCHANGED <<nextId, calls, tick, clock>>

\* loadTasks() with what it sets: the screen's tasks
Load(reloading) ==
    \E readOk \in BOOLEAN :
        LET storedTasks == getTasks(storage, readOk)
        IN  /\ \E sortedTasks \in (IF storedTasks.kind = "array"
                                   THEN sortByPriority(storedTasks.items)
                                   ELSE {<<>>}) :
                  /\ got' = [called |-> TRUE, readOk |-> readOk, value |-> storedTasks,
                             sorted |-> sortedTasks]
                  /\ input' = [tasks |-> loadTasks(input.tasks, storedTasks, sortedTasks),
                               reloading |-> reloading]
            /\ UNCHANGED <<storage, nextId, op, arg, upd, calls, tick, clock, result>>

\* the rest of a handleToggleComplete call: loadTasks()
Reload ==
    /\ input.reloading > 0
    /\ Load(input.reloading - 1)

\* the screen comes into focus, or is pulled down to refresh
Focus == Load(input.reloading)

NextToggle ==
    \/ CallAddTask
    \/ Focus
    \/ Press
    \/ Reload

SpecToggle == InitToggle /\ [][NextToggle]_vars

(* ------------------------- the progress screen ------------------------- *)

\* the longest array loadData reads
MaxStored == 201

\* the arrays loadData reads: n tasks of which none, one, all but one or all
\* are completed, the completed ones first
StoredInputs ==
    UNION { { [i \in 1..n |-> [id |-> ToString(i), completed |-> (i <= c)]] :
                c \in {0, 1, n - 1, n} \cap 0..n } : n \in 0..MaxStored }

InitLoadData ==
    /\ StoreAtRest
    /\ input \in StoredInputs
    /\ result = NoResult

\* loadData() with storedTasks = input, and the render after it: progress and
\* motivation
LoadData ==
    /\ ~result.done
    /\ \E progress \in {calculateProgress(input)} :
          result' = [done |-> TRUE,
                     value |-> [progress |-> progress,
                                motivation |-> getMotivationalMessage(progress)]]
    /\ UNCHANGED <<storage, nextId, op, arg, upd, got, calls, tick, clock, input>>

NextLoadData == LoadData

SpecLoadData == InitLoadData /\ [][NextLoadData]_vars

(* ------------- updates that name the fields set at creation ------------ *)

\* partialFields objects that name id or createdAt: updateTask takes any
\* object and spreads it over the task
IdentityUpdates ==
    { [id |-> generateId(1)],
      [createdAt |-> "2026-11-05T00:00:00.000Z"] }

CallUpdateIdentity == UpdateTaskFrom(IdentityUpdates)

NextFields ==
    \/ CallGetTasks
    \/ CallAddTask
    \/ CallUpdateIdentity
    \/ CallDeleteTask
    \/ CallClearAllTasks

SpecFields == Init /\ [][NextFields]_vars

(* ------------------------ the form, as submitted ----------------------- *)

\* forms the user submits: the two of the scenario, one whose study time is
\* the text Infinity, and forms validateForm finds errors in
FormInputs ==
    { FormA,
      FormB,
      [FormA EXCEPT !.studyTime = <<"Infinity">>],
      [FormA EXCEPT !.studyTime = <<"0">>],
      [FormA EXCEPT !.studyTime = <<"2", "abc">>],
      [FormB EXCEPT !.deadline = 1],
      [FormB EXCEPT !.subject = <<" ">>, !.topic = <<>>, !.studyTime = <<"abc">>,
                    !.deadline = 0] }

\* the user presses the button: input keeps the form state, result the
\* errors state validateForm has set
SubmitForm ==
    \E form \in FormInputs, readOk \in BOOLEAN, writeOk \in BOOLEAN :
        /\ nextId <= MaxIds
        /\ handleSubmit(form, readOk, writeOk)
        /\ input' = form
        /\ result' = [done |-> TRUE, value |-> validateForm(form)]
        /\ upd' = <<>>
        /\ got' = NotRead
        /\ UNCHANGED <<calls, tick, clock>>

NextCreate ==
    \/ SubmitForm
    \/ CallGetTasks
    \/ CallDeleteTask
    \/ CallClearAllTasks

SpecCreate == Init /\ [][NextCreate]_vars

(* --------------------------- validateForm alone ------------------------ *)

\* the texts and dates a form can hold when validateForm runs
SubjectTexts == {<<>>, <<" ">>, <<"Math">>, <<" ", "Math", " ">>}

TopicTexts == {<<>>, <<" ", " ">>, <<"Algebra">>}

StudyTimeTexts ==
    {<<>>, <<" ">>, <<"2">>, <<" ", "1">>, <<"0">>, <<"-1">>, <<"abc">>,
     <<"2", "abc">>, <<"Infinity">>}

Deadlines == 0..5

InitForm ==
    /\ storage = Missing
    /\ nextId = 1
    /\ op = NoCall
    /\ arg = Array(<<>>)
    /\ upd = <<>>
    /\ got = NotRead
    /\ calls = NoCalls
    /\ tick = 0
    /\ clock = 0
    /\ input \in [subject : SubjectTexts, topic : TopicTexts, studyTime : StudyTimeTexts,
                  deadline : Deadlines, priority : {"Low", "Medium", "High"}]
    /\ result = NoResult

\* validateForm() on the form state
ValidateForm ==
    /\ ~result.done
    /\ result' = [done |-> TRUE, value |-> validateForm(input)]
    /\ UNCHANGED <<storage, nextId, op, arg, upd, got, calls, tick, clock, input>>

NextForm == ValidateForm

SpecForm == InitForm /\ [][NextForm]_vars

(* ----------------------- calls that overlap in time -------------------- *)

\* the partialFields handleToggleComplete passes
TogglePool == {[completed |-> TRUE], [completed |-> FALSE]}

Other(s) == CHOOSE o \in Slots : o # s

\* a call starts in slot s, the first slot that has no call in flight, and
\* runs to its first await: getTasks reads the key
Begin(s, name, taskId, updates, task, readOk) ==
    /\ tick < MaxCalls
    /\ calls[s].pc \in {"idle", "done"}
    /\ \A o \in Slots : o < s => calls[o].pc = "pending"
    /\ calls' = [calls EXCEPT
                   ![s] = [pc |-> "pending", name |-> name, taskId |-> taskId,
                           updates |-> updates, task |-> task,
                           tasks |-> getTasks(storage, readOk), readOk |-> readOk,
                           ret |-> FALSE, overlapped |-> FALSE],
                   ![Other(s)].overlapped = FALSE]
    /\ tick' = tick + 1

\* handleSubmit: addTask(newTask) up to `await getTasks()`
BeginAddTask ==
    \E s \in Slots, form \in FormPool, readOk \in BOOLEAN :
        /\ nextId <= MaxIds
        /\ Begin(s, "addTask", generateId(nextId),
                 <<>>, Array(<<newTask(generateId(nextId), form)>>), readOk)
        /\ nextId' = nextId + 1
        /\ UNCHANGED <<storage, op, arg, upd, got, clock, input, result>>

\* handleToggleComplete: updateTask(taskId, {completed}) up to `await getTasks()`
BeginUpdateTask ==
    \E s \in Slots, taskId \in Ids, updates \in TogglePool, readOk \in BOOLEAN :
        /\ Begin(s, "updateTask", taskId, updates, Array(<<>>), readOk)
        /\ UNCHANGED <<storage, nextId, op, arg, upd, got, clock, input, result>>

\* the rest of the call in slot s: the write-back and the return
Finish ==
    \E s \in Slots, writeOk \in BOOLEAN :
        /\ calls[s].pc = "pending"
        /\ LET c == calls[s]
               r == IF c.name = "addTask"
                    THEN addTaskWrite(storage, c.tasks, c.task.items[1], writeOk)
                    ELSE updateTaskWrite(storage, c.tasks, c.taskId, c.updates, writeOk)
           IN  /\ storage' = r.st
               /\ calls' = [calls EXCEPT
                              ![s] = [c EXCEPT !.pc = "done", !.ret = r.ret,
                                              !.overlapped = (calls[Other(s)].pc = "pending")]]
        /\ UNCHANGED <<nextId, op, arg, upd, got, tick, clock, input, result>>

NextAsync ==
    \/ BeginAddTask
    \/ BeginUpdateTask
    \/ Finish

SpecAsync == Init /\ [][NextAsync]_vars

TypeOK ==
    /\ storage.kind \in {"missing", "array", "object", "garbage"}
    /\ nextId \in 1..(MaxIds + 1)
    /\ op.name \in {"none", "external", "saveTasks", "addTask", "updateTask",
                    "deleteTask", "clearAllTasks"}
    /\ op.ret \in BOOLEAN
    /\ got.called \in BOOLEAN
    /\ got.value.kind \in {"array", "object"}
    /\ result.done \in BOOLEAN

(* ------------------------------ properties ----------------------------- *)

\* the key holds a collection (nothing stored yet counts as the empty one)
HoldsCollection(st) == st.kind \in {"missing", "array"}

Tasks(st) == Persisted(st).items

IdsOf(s) == {s[i].id : i \in 1..Len(s)}

\* this step is the call of the write operation `name` (op' describes it); a
\* getTasks step leaves op alone and sets got.called
Returns(name) == op'.name = name /\ ~got'.called

\* C1 as stated: round trip. When saveTasks(T) returned true for a task
\* sequence T and no write call followed, the next getTasks returns T: the
\* same tasks with the same field values in the same order.
C1_RoundTripEveryRead ==
    ( /\ op.name = "saveTasks"
      /\ op.ret
      /\ arg.kind = "array"
      /\ got.called )
    => got.value = arg

\* C1 amended: round trip. When saveTasks(T) returned true for a task sequence
\* T (the empty one included), no write call followed, and the storage read of
\* the next getTasks does not fail, that getTasks returns T: the same tasks
\* with the same field values in the same order.
C1_RoundTrip ==
    ( /\ op.name = "saveTasks"
      /\ op.ret
      /\ arg.kind = "array"
      /\ got.called
      /\ got.readOk )
    => got.value = arg

C1_Witness ==
    /\ op.name = "saveTasks"
    /\ op.ret
    /\ got.called
    /\ got.readOk
    /\ got.value.kind = "array"
    /\ Len(got.value.items) = 2
    /\ got.value.items[1].id = generateId(2)

\* C2: a task leaves the persisted collection only in a deleteTask call with
\* its id or in a clearAllTasks call (or when the caller replaces the whole
\* collection with saveTasks), also when storage reads or writes fail: addTask
\* and updateTask never remove a task.
C2_OnlyDeleteOrClear ==
    [][ \A id \in PersistedIds(storage) :
            id \notin PersistedIds(storage') =>
                \/ Returns("deleteTask") /\ op'.taskId = id
                \/ Returns("clearAllTasks")
                \/ Returns("saveTasks") ]_vars

\* C3: two overlapping writes clobber each other. Whenever an addTask and an
\* updateTask of another task, or two updateTask calls on different tasks,
\* both read the collection before either writes and both return true, the
\* persisted collection lacks the effect of the call that wrote first: the
\* task it added is not there, or the task it updated is as the other call
\* read it before that write.
C3_LostUpdate ==
    \A a \in Slots :
        LET b == Other(a)
            first == calls[a]
            second == calls[b]
        IN  ( /\ first.pc = "done" /\ second.pc = "done"
              /\ first.overlapped
              /\ first.ret /\ second.ret
              /\ first.readOk /\ second.readOk
              /\ first.taskId # second.taskId
              /\ first.name = "updateTask" \/ second.name = "updateTask" )
            => IF first.name = "addTask"
               THEN first.taskId \notin PersistedIds(storage)
               ELSE /\ first.taskId \in PersistedIds(storage)
                         <=> first.taskId \in IdsOf(second.tasks.items)
                    /\ \A i \in 1..Len(Tasks(storage)) :
                          Tasks(storage)[i].id = first.taskId =>
                              \E j \in 1..Len(second.tasks.items) :
                                  second.tasks.items[j] = Tasks(storage)[i]

\* a toggle that changes its task wrote first and a toggle of another task
\* that had read before it wrote second: both returned true and the first
\* task is as it was before its toggle
C3_WitnessTwoUpdates ==
    \E a \in Slots :
        /\ calls[a].pc = "done" /\ calls[Other(a)].pc = "done"
        /\ calls[a].overlapped
        /\ calls[a].ret /\ calls[Other(a)].ret
        /\ calls[a].readOk /\ calls[Other(a)].readOk
        /\ calls[a].name = "updateTask"
        /\ calls[Other(a)].name = "updateTask"
        /\ calls[a].taskId # calls[Other(a)].taskId
        /\ calls[a].updates = [completed |-> TRUE]
        /\ \E i \in 1..Len(Tasks(storage)) :
              /\ Tasks(storage)[i].id = calls[a].taskId
              /\ ~Tasks(storage)[i].completed
        /\ \E i \in 1..Len(Tasks(storage)) :
              /\ Tasks(storage)[i].id = calls[Other(a)].taskId
              /\ Tasks(storage)[i].completed

\* an addTask wrote first, a toggle that had read before it wrote second, both
\* returned true, and the added task is gone while the toggle is there
C3_Witness ==
    \E a \in Slots :
        /\ calls[a].pc = "done" /\ calls[Other(a)].pc = "done"
        /\ calls[a].overlapped
        /\ calls[a].ret /\ calls[Other(a)].ret
        /\ calls[a].readOk /\ calls[Other(a)].readOk
        /\ calls[a].name = "addTask"
        /\ calls[Other(a)].name = "updateTask"
        /\ calls[a].taskId \notin PersistedIds(storage)
        /\ \E i \in 1..Len(Tasks(storage)) :
              /\ Tasks(storage)[i].id = calls[Other(a)].taskId
              /\ Tasks(storage)[i].completed

\* C4: addTask appends exactly one task. From a collection S, with no other
\* call in flight, an addTask(t) that returns true makes getTasks return S
\* followed by t: one more task, t with the fields passed in, every task of S
\* unchanged.
C4_AddAppends ==
    [][ ( /\ Returns("addTask")
          /\ op'.ret
          /\ HoldsCollection(storage) )
        => /\ Tasks(storage') = Append(Tasks(storage), arg'.items[1])
           /\ Len(Tasks(storage')) = Len(Tasks(storage)) + 1 ]_vars

\* C5: updateTask(id, partialFields) with an id that is in the collection
\* overwrites only the fields named in partialFields, only in the task with
\* that id: its other fields, every other task, and the number and the order
\* of the tasks are unchanged; with {completed: true} only the completed field
\* changes.
C5_UpdateFrame ==
    [][ ( /\ Returns("updateTask")
          /\ HoldsCollection(storage)
          /\ op'.taskId \in PersistedIds(storage) )
        => LET old == Tasks(storage)
               new == Tasks(storage')
           IN  /\ Len(new) = Len(old)
               /\ \A i \in 1..Len(old) :
                     IF old[i].id = op'.taskId
                     THEN /\ DOMAIN new[i] = DOMAIN old[i]
                          /\ \A f \in DOMAIN old[i] \ DOMAIN upd' : new[i][f] = old[i][f]
                          /\ op'.ret => \A f \in DOMAIN upd' : new[i][f] = upd'[f]
                     ELSE new[i] = old[i] ]_vars

\* C6: updateTask with an id that is not in the collection leaves the
\* persisted collection as it was, for every partialFields and every prior
\* collection, and returns true (unless its write-back fails).
C6_UpdateAbsentId ==
    [][ ( /\ Returns("updateTask")
          /\ HoldsCollection(storage)
          /\ op'.taskId \notin PersistedIds(storage) )
        => /\ op'.writeOk => op'.ret
           /\ Tasks(storage') = Tasks(storage) ]_vars

\* C7: deleteTask(id) removes exactly the tasks with that id: the other tasks
\* stay, unchanged and in their order; with an id that is not in the
\* collection the collection is unchanged; it returns true (unless its
\* write-back fails).
C7_DeleteExactly ==
    [][ ( /\ Returns("deleteTask")
          /\ HoldsCollection(storage) )
        => LET old == Tasks(storage)
               new == Tasks(storage')
           IN  /\ op'.writeOk => op'.ret
               /\ op'.ret => new = SelectSeq(old, LAMBDA t : t.id # op'.taskId)
               /\ \A i \in 1..Len(old) :
                     old[i].id # op'.taskId => \E j \in 1..Len(new) : new[j] = old[i]
               /\ op'.taskId \notin IdsOf(old) => new = old ]_vars

\* C8: whenever a storage access made by addTask, updateTask or deleteTask
\* fails (the read of the current collection or the write-back), the call
\* returns false.
C8_FailureReturnsFalse ==
    ( /\ op.name \in {"addTask", "updateTask", "deleteTask"}
      /\ ~op.readOk \/ ~op.writeOk )
    => ~op.ret

\* C9: every store call runs to completion and returns a boolean (write
\* calls) or a sequence (getTasks), whatever the key holds and whatever the
\* call is handed.
C9_ReturnsSequence ==
    /\ op.ret \in BOOLEAN
    /\ got.called => got.value.kind = "array"

\* C10: getTasks returns the stored collection in stored order when a
\* parseable collection is stored and its read succeeds, and the empty
\* sequence when nothing is stored, when the stored text cannot be parsed or
\* when the read fails; a missing key and a stored empty collection give the
\* same result.
C10_GetTasks ==
    got.called =>
        /\ (got.readOk /\ storage.kind = "array") =>
              /\ got.value.kind = "array"
              /\ Len(got.value.items) = Len(storage.items)
              /\ \A i \in 1..Len(storage.items) :
                    got.value.items[i] = DecodeTask(storage.items[i])
        /\ (~got.readOk \/ storage.kind \in {"missing", "garbage"}) =>
              got.value = Array(<<>>)
        /\ (storage.kind = "array" /\ Len(storage.items) = 0) =>
              got.value = getTasks(Missing, got.readOk)

\* getTasks has returned the empty sequence for a text that is no JSON
C10_Witness ==
    /\ got.called
    /\ got.readOk
    /\ storage.kind = "garbage"
    /\ got.value = Array(<<>>)

\* getTasks has returned two stored tasks in stored order
C10_WitnessStored ==
    /\ got.called
    /\ got.readOk
    /\ storage.kind = "array"
    /\ Len(got.value.items) = 2
    /\ got.value.items[1].id = generateId(2)
    /\ got.value.items[2].completed

\* C11: after clearAllTasks returned true the persisted task data is gone:
\* the key is missing, the next getTasks returns the empty sequence (whether
\* its read succeeds or not), and an addTask(t) that follows and returns true
\* leaves a collection that holds t and nothing else.
C11_ClearRemovesAll ==
    /\ (op.name = "clearAllTasks" /\ op.ret) =>
          /\ storage = Missing
          /\ got.called => got.value = Array(<<>>)
    /\ (op.name = "addTask" /\ op.afterClear /\ op.ret) =>
          Persisted(storage) = arg

\* the second task handed out was added right after a clearAllTasks that
\* returned true, and it is the only task persisted
C11_Witness ==
    /\ op.name = "addTask"
    /\ op.afterClear
    /\ op.ret
    /\ op.taskId = generateId(2)
    /\ Len(Tasks(storage)) = 1
    /\ Tasks(storage)[1].id = generateId(2)

\* getTasks has returned the empty sequence after a clearAllTasks that
\* returned true, when both ids had been handed out before
C11_WitnessRead ==
    /\ op.name = "clearAllTasks"
    /\ op.ret
    /\ nextId = MaxIds + 1
    /\ got.called
    /\ got.readOk
    /\ got.value = Array(<<>>)

\* C12: id uniqueness. In every reachable state, after any sequence of
\* addTask, updateTask, deleteTask and clearAllTasks calls, no two tasks of
\* the persisted collection have the same id.
C12_IdsUnique ==
    HoldsCollection(storage) =>
        \A i, j \in 1..Len(Tasks(storage)) :
            Tasks(storage)[i].id = Tasks(storage)[j].id => i = j

\* C13: id and createdAt are immutable. An updateTask call leaves the id and
\* the createdAt of every task it keeps as they were, for every partialFields.
C13_IdAndCreatedAtImmutable ==
    [][ ( /\ Returns("updateTask")
          /\ HoldsCollection(storage) )
        => LET old == Tasks(storage)
               new == Tasks(storage')
           IN  \A i \in 1..Len(new) :
                  i <= Len(old) =>
                      /\ new[i].id = old[i].id
                      /\ new[i].createdAt = old[i].createdAt ]_vars

\* a finite number greater than 0
FinitePositive(n) == n \in 1..MaxNum

\* what section 4.3 asks of each field of a form
FieldValid(f, form) ==
    CASE f = "subject" -> trim(form.subject) # <<>>
      [] f = "topic" -> trim(form.topic) # <<>>
      [] f = "studyTime" -> /\ trim(form.studyTime) # <<>>
                            /\ FinitePositive(ToNumber(form.studyTime))
      [] OTHER -> form.deadline \div 2 >= Now \div 2

FormFields == {"subject", "topic", "studyTime", "deadline"}

\* this step is handleSubmit running on the form input' holds
Submits == op'.name \in {"addTask", "none"} /\ ~got'.called /\ result'.done

\* C14: studyTime is a finite positive number for every persisted task in
\* every reachable state: the task handleSubmit hands to addTask after
\* validateForm accepted the form has a finite studyTime > 0, and so has every
\* task of the persisted collection after every later store call.
C14_StudyTimeFinitePositive ==
    /\ op.name = "addTask" => FinitePositive(arg.items[1].studyTime)
    /\ HoldsCollection(storage) =>
          \A i \in 1..Len(Tasks(storage)) :
              /\ "studyTime" \in DOMAIN Tasks(storage)[i]
              /\ FinitePositive(Tasks(storage)[i].studyTime)

\* C15: handleSubmit reaches the store only with a valid task. Whenever
\* subject or topic is empty after trim, or studyTime is not a finite number
\* > 0, or the deadline is before today, handleSubmit makes no store call and
\* the persisted collection is unchanged; so addTask is called only when all
\* four hold.
C15_OnlyValidReachStore ==
    [][ ( /\ Submits
          /\ \E f \in FormFields : ~FieldValid(f, input') )
        => /\ op'.name = "none"
           /\ storage' = storage ]_vars

\* C16: validateForm reports all invalid fields at once. After it ran, the
\* errors object has an entry for every one of subject, topic, studyTime and
\* deadline that is invalid and none for a field that is valid, and the form
\* is accepted exactly when the object is empty.
C16_ReportsEveryInvalidField ==
    result.done =>
        /\ \A f \in FormFields :
              f \in DOMAIN result.value <=> ~FieldValid(f, input)
        /\ Accepted(result.value) <=> \A f \in FormFields : FieldValid(f, input)

\* the ids of the persisted tasks, in stored order
IdSeq(st) == [i \in 1..Len(Tasks(st)) |-> Tasks(st)[i].id]

Range(s) == {s[i] : i \in 1..Len(s)}

\* where x is in s
IndexOf(s, x) == CHOOSE k \in 1..Len(s) : s[k] = x

\* where the task with the id of t is in tasks
PositionIn(tasks, t) == CHOOSE k \in 1..Len(tasks) : tasks[k].id = t.id

RankOf(task) ==
    IF "priority" \notin DOMAIN task THEN 4
    ELSE CASE task.priority = "High" -> 1
           [] task.priority = "Medium" -> 2
           [] task.priority = "Low" -> 3
           [] OTHER -> 4

\* C19: sortByPriority is stable. For every input and every two of its tasks
\* of equal priority rank, the one that is first in the input is first in
\* the array returned.
C19_Stable ==
    result.done =>
        \A i, j \in 1..Len(input) :
            (i < j /\ RankOf(input[i]) = RankOf(input[j])) =>
                PositionIn(result.value, input[i]) < PositionIn(result.value, input[j])

\* C20: sortByPriority returns a permutation of its input in nondecreasing
\* priority rank (1 High, 2 Medium, 3 Low, 4 every other value and a missing
\* one), and the array handed in is not reordered.
C20_SortedPermutation ==
    /\ [](result.done =>
            /\ Len(result.value) = Len(input)
            /\ \A i \in 1..Len(input) : \E k \in 1..Len(input) : result.value[k] = input[i]
            /\ \A k \in 1..(Len(result.value) - 1) :
                  RankOf(result.value[k]) <= RankOf(result.value[k + 1]))
    /\ [][input' = input]_vars

\* C18: calculateProgress(tasks) is round(100 * completedCount / totalCount),
\* the nearest integer and the greater one of two that are as near, for every
\* non-empty array, and 0 for the empty one; it is an integer of 0..100, 0
\* when no task is completed and 100 when all are.
C18_ProgressPercent ==
    result.done =>
        LET totalCount == Len(input)
            doneCount == Cardinality({i \in 1..Len(input) : input[i].completed})
        IN  /\ result.value \in 0..100
            /\ totalCount = 0 => result.value = 0
            /\ totalCount > 0 =>
                  /\ result.value = (200 * doneCount + totalCount) \div (2 * totalCount)
                  /\ doneCount = 0 => result.value = 0
                  /\ doneCount = totalCount => result.value = 100

\* the indexes of the tasks of the sequence whose completed flag is flag
IndexesWhere(tasks, flag) == {i \in 1..Len(tasks) : tasks[i].completed = flag}

\* sub holds exactly tasks[i] for i in indexes, in increasing order of i
IsSelection(sub, tasks, indexes) ==
    /\ Len(sub) = Cardinality(indexes)
    /\ \A i \in indexes : sub[Cardinality({j \in indexes : j < i}) + 1] = tasks[i]

\* C21: getFilteredTasks returns the tasks unchanged for filter all, exactly
\* the tasks with completed false for pending and exactly those with completed
\* true for completed, each in the order of tasks; no task is in both, every
\* task is in one of them, and the two counts sum to the number of tasks.
C21_FilterByCompletion ==
    result.done =>
        LET tasks == input.tasks
            pending == getFilteredTasks(tasks, "pending")
            completed == getFilteredTasks(tasks, "completed")
        IN  /\ input.filter = "all" => result.value.filteredTasks = tasks
            /\ input.filter = "pending" =>
                  IsSelection(result.value.filteredTasks, tasks, IndexesWhere(tasks, FALSE))
            /\ input.filter = "completed" =>
                  IsSelection(result.value.filteredTasks, tasks, IndexesWhere(tasks, TRUE))
            /\ IdsOf(pending) \cap IdsOf(completed) = {}
            /\ IdsOf(pending) \cup IdsOf(completed) = IdsOf(tasks)
            /\ result.value.pendingCount = Len(pending)
            /\ result.value.completedCount = Len(completed)
            /\ result.value.pendingCount + result.value.completedCount = Len(tasks)

\* a render with filter pending of a list that has tasks of both kinds, the
\* completed one first
C21_Witness ==
    /\ result.done
    /\ input.filter = "pending"
    /\ Len(input.tasks) >= 3
    /\ input.tasks[1].completed
    /\ Len(result.value.filteredTasks) = 2

\* C22: for every task collection the hours shown satisfy total = completed +
\* remaining, with 0 <= completed <= total and remaining >= 0.
C22_HoursAddUp ==
    result.done =>
        LET v == result.value
        IN  /\ ~IsNegative(v.remaining)
            /\ LessEqDouble(v.completed, v.total)
            /\ ~IsNegative(v.remaining) => v.total = Plus(v.completed, v.remaining)

\* the six messages, from the highest tier to the lowest
Ladder == <<Perfect, AlmostThere, GreatProgress, GoodStart, Started, AddTasks>>

\* the tier of a percent: 1 for 100, 2 from 75, 3 from 50, 4 from 25, 5 above
\* 0 and 6 for 0
Tier(percent) ==
    CHOOSE k \in 1..6 :
        /\ k = 1 <=> percent = 100
        /\ k = 2 <=> percent \in 75..99
        /\ k = 3 <=> percent \in 50..74
        /\ k = 4 <=> percent \in 25..49
        /\ k = 5 <=> percent \in 1..24
        /\ k = 6 <=> percent = 0

\* C23: every percent of 0..100 gets exactly one of six different messages,
\* by the ladder 100, >= 75, >= 50, >= 25, > 0, else: the message of a percent
\* is the one of its tier, so 100 and 99, 75 and 74, 50 and 49, 25 and 24, 1
\* and 0 get different messages.
C23_MessageLadder ==
    /\ Cardinality({Ladder[k] : k \in 1..6}) = 6
    /\ (result.done /\ input \in Percents) => result.value = Ladder[Tier(input)]
    /\ \A lower \in {100, 75, 50, 25, 1} :
          getMotivationalMessage(lower) # getMotivationalMessage(lower - 1)

\* the message for 75 has been chosen
C23_Witness == result.done /\ input = 75 /\ result.value = AlmostThere

\* C24: a derived view returns the same value for the same arguments whatever
\* the time of the call: once getGreeting or getTodaysTasks has returned a
\* value, a later call with the same arguments returns that value again.
C24_ClockIndependent ==
    [][ \A name \in {"getGreeting", "getTodaysTasks"} :
            (result.value[name] # <<>> /\ input' = input) =>
                result'.value[name] = result.value[name] ]_vars

\* the calendar day a clock reading is in, and the one a Date is in
DayOfClock(hours) == hours \div 24

DayOf(date) == date \div 2

\* C25: getTodaysTasks, called at a time of some day, returns exactly the
\* tasks whose deadline is at any time of that day, in the order of the array,
\* and none due on an earlier or later day; the empty array gives the empty
\* array.
C25_DueToday ==
    [][ result'.value.getTodaysTasks # result.value.getTodaysTasks =>
            LET due == {i \in 1..Len(input) :
                          /\ DateOf(input[i].deadline) # InvalidDate
                          /\ DayOf(DateOf(input[i].deadline)) = DayOfClock(clock)}
            IN  /\ IsSelection(result'.value.getTodaysTasks[1], input, due)
                /\ input = <<>> => result'.value.getTodaysTasks[1] = <<>> ]_vars

\* at 15:00 of the second day getTodaysTasks has returned the first of two
\* tasks, due at noon of that day, and not the second, due the day before
C25_Witness ==
    /\ clock = 39
    /\ Len(input) = 2
    /\ DateOf(input[1].deadline) = 3
    /\ DateOf(input[2].deadline) = 1
    /\ result.value.getTodaysTasks = <<(<<input[1]>>)>>

\* C26: getGreeting returns the morning greeting at every hour before 12, the
\* afternoon greeting from 12 to 16 and the evening greeting from 17 on.
C26_GreetingLadder ==
    [][ result'.value.getGreeting # result.value.getGreeting =>
            LET hour == clock % 24
                greeting == result'.value.getGreeting[1]
            IN  /\ hour \in 0..11 => greeting = "Good Morning"
                /\ hour \in 12..16 => greeting = "Good Afternoon"
                /\ hour \in 17..23 => greeting = "Good Evening" ]_vars

\* getGreeting has returned the afternoon greeting at 12:00
C26_Witness ==
    /\ clock % 24 = 12
    /\ result.value.getGreeting = <<"Good Afternoon">>

\* C27: from an empty store, adding Math (2 hours, High) and History (1 hour,
\* Low) and then completing the first, every call returning true, gives a
\* snapshot, read after the last call, with progress 50, 3 hours in total, 2
\* completed and 1 remaining, and the sorted list Math, History.
C27_Scenario ==
    (got.called /\ got.readOk /\ input = <<TRUE, TRUE, TRUE>>) =>
        /\ result.value.progress = 50
        /\ result.value.total = Ratio(3, 1)
        /\ result.value.completed = Ratio(2, 1)
        /\ result.value.remaining = Ratio(1, 1)
        /\ [i \in 1..Len(result.value.sorted) |-> result.value.sorted[i].subject]
              = <<"Math", "History">>

\* C28: when no handleToggleComplete call is still running, the persisted
\* completed flag of a task whose toggle was pressed n times, each updateTask
\* returning true, is the flag it was created with, false, inverted n times.
C28_TogglesInvert ==
    \A id \in Ids :
        (input.reloading = 0 /\ id \in PersistedIds(storage) /\ ~result.value[id].failed) =>
            \A i \in 1..Len(Tasks(storage)) :
                Tasks(storage)[i].id = id =>
                    Tasks(storage)[i].completed = (result.value[id].presses % 2 = 1)

\* the names of the calls that write
WriteCalls == {"saveTasks", "addTask", "updateTask", "deleteTask", "clearAllTasks"}

\* C29: a call of saveTasks, addTask, updateTask, deleteTask or clearAllTasks
\* that returns false leaves the key holding what it held before the call.
C29_FalseHasNoEffect ==
    [][ (op'.name \in WriteCalls /\ ~got'.called /\ ~op'.ret) => storage' = storage ]_vars

\* a deleteTask of a stored task has returned false, and the task is stored
C29_Witness ==
    /\ op.name = "deleteTask"
    /\ ~got.called
    /\ ~op.ret
    /\ op.taskId \in PersistedIds(storage)

\* C30: progress is 100 only if every task is completed and 0 only if none
\* is, so the message for 100 is shown only when all tasks are completed and
\* the message for 0 only when none is.
C30_EndpointsExact ==
    result.done =>
        LET all == \A i \in 1..Len(input) : input[i].completed
            none == \A i \in 1..Len(input) : ~input[i].completed
        IN  /\ result.value.progress = 100 => all
            /\ result.value.progress = 0 => none
            /\ result.value.motivation = Perfect => all
            /\ result.value.motivation = AddTasks => none
====
